---- MODULE Spec2Model ----
(***************************************************************************)
(* State-machine model of esp-32-image-detection.ino: the wake cycle       *)
(* (setup), Wi-Fi resolution (ensureWiFiConnected and its helpers), the    *)
(* NVS credential record, the cloud fetch, capture and chunked publish.    *)
(*                                                                         *)
(* The sketch is single threaded.  Every function is modelled as a group   *)
(* of actions selected by the program position pc; a call pushes its       *)
(* return position on stack and the callee hands its result back in ret.   *)
(* What the environment decides (which networks are in range, what the     *)
(* HTTP server answers, storage faults, how many bytes the transport       *)
(* accepts, loss of the broker session) is drawn with \E or is a separate  *)
(* environment action.                                                     *)
(***************************************************************************)
EXTENDS Integers, Sequences, FiniteSets, TLC

(***************************************************************************)
(* Bounds of the model (not program constants).                            *)
(***************************************************************************)
MaxPartial == 1      \* transport writes per publish that accept only part of a chunk
CeilingMargin == 16  \* frame lengths are explored this far on both sides of the ceiling
MaxLoopTicks == 62   \* passes of loop() that are followed

(***************************************************************************)
(* Program constants.                                                      *)
(***************************************************************************)
CLOUD_WIFI_TIMEOUT_MS == 15000
tryMs == 12000
POLL_DELAY_MS == 300
AWS_FETCH_MAX_RETRIES == 5
PUBLISH_CHUNK_SZ == 2048
MQTT_MAX_IMAGE_BYTES == 120 * 1024
PUBLISH_INTERVAL_MS == 1 * 60 * 1000
LOOP_DELAY_MS == 1000
lastPublishMs == 0   \* global, initialised to 0 and assigned nowhere

(***************************************************************************)
(* Strings.  Null stands for a null pointer / an absent key; "" is the     *)
(* empty string.                                                           *)
(***************************************************************************)
Null == "<null>"

Cred(s, p) == [ssid |-> s, pass |-> p]
NoLink == Cred(Null, Null)
EmptyStore == Cred(Null, Null)

\* defaultWifiList[]: the bootstrap entry first, then the added entries.
defaultWifiList == << Cred("boot", "pboot"), Cred("def1", "pdef1"), Cred("def2", "pdef2") >>
DEFAULT_WIFI_COUNT == Len(defaultWifiList)

\* Credentials the cloud may hand out.
CloudCreds == { Cred("cloudA", "pA"), Cred("cloudB", "pB") }

\* Networks that may be in range with a matching password.
Networks == { defaultWifiList[k] : k \in 1..DEFAULT_WIFI_COUNT } \cup CloudCreds

VARIABLES
  nvs,          \* Preferences namespace "wifi": [ssid, pass], Null = key absent
  reachable,    \* networks that associate within a connect timeout in this wake cycle
  rough,        \* whether camera, heap and broker transport may misbehave in this cycle
  viaIoT,       \* the build's WIFI_CONFIG_VIA_IOT
  pc,           \* program position
  stack,        \* return positions of the calls in progress
  ret,          \* return value of the last call that returned
  wifiLink,     \* credential the station is associated with; NoLink = not WL_CONNECTED
  wifiTarget,   \* credential given to the last WiFi.begin
  timeoutMs,    \* timeoutMs argument of tryConnectWifiWithTimeout
  elapsed,      \* millis() - start inside a wait loop
  i,            \* loop index of connectWithDefaultWifiList
  attempt,      \* loop index of fetchWifiConfigFromAWS
  nvsSsid, nvsPass,          \* locals of ensureWiFiConnected
  wifiSsidFromCloud, wifiPasswordFromCloud, wifiConfigFromCloud,
  mqttConnected,             \* mqttClient.connected()
  mqttCallback, \* whether wifiConfigMqttCallback is installed on mqttClient
  wifiConfigResponseReceived, wifiConfigResponseBuf,
  transfer,     \* image transfer on the broker client: none / open / finalized / abandoned
  cam,          \* what captureToPSRAM did with the hardware frame
  img, len,     \* locals of setup: the capture buffer and its length
  sent,         \* local of publishImageBinary
  pub,          \* what publishImageBinary asked of the transport
  provenance,   \* which call site brought the current link up
  events,       \* what this wake cycle has done so far, in order
  pre,          \* link, provenance, flag and store at entry of the last fetch
  httpResult,   \* outcome and number of the last request of fetchWifiConfigFromAWS
  uptime        \* millis() as loop() sees it

envV   == << nvs, reachable, rough, viaIoT >>
ctlV   == << pc, stack, ret >>
wifiV  == << wifiLink, wifiTarget, timeoutMs, elapsed, provenance >>
locV   == << i, attempt, nvsSsid, nvsPass >>
cloudV == << wifiSsidFromCloud, wifiPasswordFromCloud, wifiConfigFromCloud >>
mqttV  == << mqttConnected, mqttCallback, transfer >>
iotV   == << wifiConfigResponseReceived, wifiConfigResponseBuf >>
capV   == << cam, img, len >>
pubV   == << sent, pub >>
logV   == << events, pre >>
auxV   == << httpResult, uptime >>

vars == << envV, ctlV, wifiV, locV, cloudV, mqttV, iotV, capV, pubV, logV, auxV >>

(***************************************************************************)
(* Pure helpers.                                                           *)
(***************************************************************************)
Min(a, b) == IF a < b THEN a ELSE b

Prov(src, idx) == [src |-> src, idx |-> idx]
NoProv == Prov("None", -1)

Ev(e, k) == [e |-> e, k |-> k]
Log(e, k) == Append(events, Ev(e, k))
Happened(e) == \E n \in 1..Len(events) : events[n].e = e
Count(e) == Cardinality({ n \in 1..Len(events) : events[n].e = e })

NoCam == [got |-> FALSE, flen |-> 0, returns |-> 0, allocs |-> 0, copied |-> FALSE,
          frees |-> 0]
NoPub == [beginCalls |-> 0, begun |-> FALSE, writes |-> 0, maxOffered |-> 0, accepted |-> 0,
          zero |-> FALSE, afterZero |-> 0, partials |-> 0,
          endPublish |-> "none", result |-> "none"]
NoPre == [link |-> NoLink, prov |-> NoProv, flag |-> FALSE, nvs |-> EmptyStore]
NoRequest == [kind |-> "none", n |-> 0]

\* WiFi.status() == WL_CONNECTED
Connected == wifiLink # NoLink

(***************************************************************************)
(* CredentialStore: saveWifiConfigToNVS / loadWifiConfigFromNVS.           *)
(* beginOk, putSsidOk, putPassOk are the storage medium's answers.         *)
(***************************************************************************)
\* Mutant: a record already in the store is kept (write once).
saveWifiConfigToNVS_KeepsOld(store, ssid, pass, beginOk, putSsidOk, putPassOk) ==
  IF ~beginOk \/ store.ssid # Null THEN store
  ELSE [ssid |-> ssid, pass |-> pass]

saveWifiConfigToNVS(store, ssid, pass, beginOk, putSsidOk, putPassOk) ==
  IF ~beginOk THEN store
  ELSE [ssid |-> IF putSsidOk THEN ssid ELSE store.ssid,
        pass |-> IF putPassOk THEN pass ELSE store.pass]

\* Answers of prefs.putString inside a wake cycle; prefs.begin may fail.
PutAnswers == { TRUE }

loadWifiConfigFromNVS(store, beginOk) ==
  IF ~beginOk \/ store.ssid = Null
  THEN [ok |-> FALSE, ssid |-> "", pass |-> ""]
  ELSE [ok |-> store.ssid # "",
        ssid |-> store.ssid,
        pass |-> IF store.pass = Null THEN "" ELSE store.pass]

(***************************************************************************)
(* parseWifiConfigJson.  A payload is empty, bad (deserializeJson reports  *)
(* an error) or a document; a document field is Null when the key is       *)
(* absent or is not a string.                                              *)
(***************************************************************************)
Payload(kind, s, ws, p, wp) ==
  [kind |-> kind, ssid |-> s, wifi_ssid |-> ws, password |-> p, wifi_password |-> wp]
EmptyPayload == Payload("empty", Null, Null, Null, Null)
BadJson == Payload("bad", Null, Null, Null, Null)
Doc(s, ws, p, wp) == Payload("doc", s, ws, p, wp)

ssidStr(doc) == IF doc.ssid = Null \/ doc.ssid = "" THEN doc.wifi_ssid ELSE doc.ssid
passStr(doc) == IF doc.password = Null THEN doc.wifi_password ELSE doc.password

parseWifiConfigJson(payload) ==
  IF payload.kind # "doc" THEN [ok |-> FALSE, ssid |-> "", pass |-> ""]
  ELSE IF ssidStr(payload) = Null \/ ssidStr(payload) = ""
       THEN [ok |-> FALSE, ssid |-> "", pass |-> ""]
       ELSE [ok |-> TRUE, ssid |-> ssidStr(payload),
             pass |-> IF passStr(payload) = Null THEN "" ELSE passStr(payload)]

\* Response bodies the HTTP endpoint is modelled to return.
Bodies == { EmptyPayload, BadJson,
            Doc("cloudA", Null, "pA", Null),
            Doc(Null, "cloudB", Null, "pB"),
            Doc("", Null, "pA", "pB") }

\* HTTP status codes: HTTP_CODE_OK, a server refusal, a transport error.
HTTP_CODE_OK == 200
HttpCodes == { HTTP_CODE_OK, 404, -1 }

(***************************************************************************)
(* Control helpers.                                                        *)
(***************************************************************************)
Call(target, retpc) == pc' = target /\ stack' = << retpc >> \o stack
Return == pc' = Head(stack) /\ stack' = Tail(stack)

\* The surroundings of one wake cycle.  Capture and publish see nothing of
\* the resolution but the link it leaves up, so their misbehaviour is explored
\* in the cycles where only the bootstrap network is in range, and every
\* combination of networks in range is explored with a well-behaved camera,
\* heap and transport.
Surroundings ==
  { << r, FALSE >> : r \in SUBSET Networks } \cup { << { defaultWifiList[1] }, TRUE >> }

\* Answers of the camera, the heap and the broker transport.
Answers == IF rough THEN BOOLEAN ELSE { TRUE }

Init ==
  /\ nvs = EmptyStore
  /\ \E sur \in Surroundings : reachable = sur[1] /\ rough = sur[2]
  /\ viaIoT \in BOOLEAN
  /\ pc = "setup" /\ stack = << >> /\ ret = FALSE
  /\ wifiLink = NoLink /\ wifiTarget = NoLink /\ timeoutMs = 0 /\ elapsed = 0
  /\ provenance = NoProv
  /\ i = 0 /\ attempt = 0 /\ nvsSsid = "" /\ nvsPass = ""
  /\ wifiSsidFromCloud = "" /\ wifiPasswordFromCloud = "" /\ wifiConfigFromCloud = FALSE
  /\ mqttConnected = FALSE /\ mqttCallback = FALSE /\ transfer = "none"
  /\ wifiConfigResponseReceived = FALSE /\ wifiConfigResponseBuf = EmptyPayload
  /\ cam = NoCam /\ img = Null /\ len = 0
  /\ sent = 0 /\ pub = NoPub
  /\ events = << >> /\ pre = NoPre
  /\ httpResult = NoRequest /\ uptime = 0

(***************************************************************************)
(* The Wi-Fi driver as the sketch uses it.                                 *)
(***************************************************************************)
\* while (WiFi.status() != WL_CONNECTED && (millis() - start) < T) delay(300);
\* joinAt is when the association completes (-1: never); the result is
\* millis() - start when the loop is left.
RECURSIVE WaitLoop(_, _, _)
WaitLoop(ms, T, joinAt) ==
  IF ~(joinAt # -1 /\ joinAt <= ms) /\ ms < T
  THEN WaitLoop(ms + POLL_DELAY_MS, T, joinAt)
  ELSE ms

\* When the association with target may complete: a network in range joins
\* at once or during the last delay before the timeout T; any other never joins.
JoinTimes(target, T) ==
  IF target \in reachable THEN { 0, T - 1 } ELSE { -1 }

\* WiFi.status() == WL_CONNECTED once the wait loop is left
JoinedBy(ms, joinAt) == joinAt # -1 /\ joinAt <= ms

(***************************************************************************)
(* tryConnectWifiWithTimeout(ssid, pass, timeoutMs)                        *)
(***************************************************************************)
tryConnectWifiWithTimeout ==
  /\ pc = "try"
  /\ IF Connected
     THEN /\ Return /\ ret' = TRUE
          /\ UNCHANGED << wifiLink, elapsed >>
     ELSE \* WiFi.disconnect(true); delay(300); WiFi.begin(ssid, pass); wait loop
          \E joinAt \in JoinTimes(wifiTarget, timeoutMs) :
            /\ pc' = "try_done"
            /\ elapsed' = WaitLoop(0, timeoutMs, joinAt)
            /\ wifiLink' = IF JoinedBy(WaitLoop(0, timeoutMs, joinAt), joinAt)
                           THEN wifiTarget ELSE NoLink
            /\ UNCHANGED << stack, ret >>
  /\ UNCHANGED << wifiTarget, timeoutMs, provenance >>
  /\ UNCHANGED << envV, locV, cloudV, mqttV, iotV, capV, pubV, logV >>
  /\ UNCHANGED auxV

\* if (WiFi.status() == WL_CONNECTED) return true;  return false;
try_done ==
  /\ pc = "try_done"
  /\ Return /\ ret' = Connected
  /\ elapsed' = 0
  /\ UNCHANGED << wifiLink, wifiTarget, timeoutMs, provenance >>
  /\ UNCHANGED << envV, locV, cloudV, mqttV, iotV, capV, pubV, logV >>
  /\ UNCHANGED auxV

(***************************************************************************)
(* connectWithDefaultWifiList()                                            *)
(***************************************************************************)
\* Mutant: the scan starts at the second entry.
connectWithDefaultWifiList_SkipsFirst ==
  /\ pc = "dflt"
  /\ IF Connected
     THEN /\ Return /\ ret' = TRUE
          /\ UNCHANGED << i >>
     ELSE /\ pc' = "dflt_loop"
          /\ i' = 1
          /\ UNCHANGED << stack, ret >>
  /\ UNCHANGED << attempt, nvsSsid, nvsPass >>
  /\ UNCHANGED << envV, wifiV, cloudV, mqttV, iotV, capV, pubV, logV >>
  /\ UNCHANGED auxV

connectWithDefaultWifiList ==
  /\ pc = "dflt"
  /\ IF Connected
     THEN /\ Return /\ ret' = TRUE
          /\ UNCHANGED << i >>
     ELSE /\ pc' = "dflt_loop"
          /\ i' = 0
          /\ UNCHANGED << stack, ret >>
  /\ UNCHANGED << attempt, nvsSsid, nvsPass >>
  /\ UNCHANGED << envV, wifiV, cloudV, mqttV, iotV, capV, pubV, logV >>
  /\ UNCHANGED auxV

\* for (int i = 0; i < DEFAULT_WIFI_COUNT; i++) { WiFi.disconnect(true);
\*   WiFi.begin(defaultWifiList[i]...); wait loop
dflt_loop ==
  /\ pc = "dflt_loop"
  /\ IF i < DEFAULT_WIFI_COUNT
     THEN \E joinAt \in JoinTimes(defaultWifiList[i + 1], tryMs) :
            /\ pc' = "dflt_check"
            /\ wifiTarget' = defaultWifiList[i + 1]
            /\ elapsed' = WaitLoop(0, tryMs, joinAt)
            /\ wifiLink' = IF JoinedBy(WaitLoop(0, tryMs, joinAt), joinAt)
                           THEN defaultWifiList[i + 1] ELSE NoLink
            /\ provenance' = NoProv
            /\ events' = Log("TryDefault", i)
            /\ UNCHANGED << stack, ret >>
     ELSE /\ Return /\ ret' = FALSE
          /\ UNCHANGED << wifiLink, provenance, wifiTarget, elapsed, events >>
  /\ UNCHANGED << timeoutMs, pre >>
  /\ UNCHANGED << envV, locV, cloudV, mqttV, iotV, capV, pubV >>
  /\ UNCHANGED auxV

\* Mutant: the scan goes on to the next entry after one has connected.
dflt_check_KeepsScanning ==
  /\ pc = "dflt_check"
  /\ elapsed' = 0
  /\ IF Connected /\ i = DEFAULT_WIFI_COUNT - 1
     THEN /\ Return /\ ret' = TRUE
          /\ provenance' = Prov("DefaultList", i)
          /\ i' = 0
     ELSE /\ pc' = "dflt_loop"
          /\ i' = i + 1
          /\ UNCHANGED << stack, ret, provenance >>
  /\ UNCHANGED << wifiLink, wifiTarget, timeoutMs, attempt, nvsSsid, nvsPass >>
  /\ UNCHANGED << envV, cloudV, mqttV, iotV, capV, pubV, logV >>
  /\ UNCHANGED auxV

\* if (WiFi.status() == WL_CONNECTED) return true;  else next entry
dflt_check ==
  /\ pc = "dflt_check"
  /\ elapsed' = 0
  /\ IF Connected
     THEN /\ Return /\ ret' = TRUE
          /\ provenance' = Prov("DefaultList", i)
          /\ i' = 0
     ELSE /\ pc' = "dflt_loop"
          /\ i' = i + 1
          /\ UNCHANGED << stack, ret, provenance >>
  /\ UNCHANGED << wifiLink, wifiTarget, timeoutMs, attempt, nvsSsid, nvsPass >>
  /\ UNCHANGED << envV, cloudV, mqttV, iotV, capV, pubV, logV >>
  /\ UNCHANGED auxV

(***************************************************************************)
(* fetchWifiConfigFromAWS(): up to AWS_FETCH_MAX_RETRIES HTTP requests.    *)
(***************************************************************************)
fetchWifiConfigFromAWS ==
  /\ pc = "fetch"
  /\ events' = Log("Fetch", IF Connected THEN 1 ELSE 0)
  /\ IF ~Connected
     THEN /\ Return /\ ret' = FALSE
          /\ UNCHANGED << attempt >>
     ELSE /\ pc' = "fetch_attempt"
          /\ attempt' = 1
          /\ UNCHANGED << stack, ret >>
  /\ UNCHANGED << i, nvsSsid, nvsPass, pre >>
  /\ UNCHANGED << envV, wifiV, cloudV, mqttV, iotV, capV, pubV >>
  /\ UNCHANGED auxV

\* What one request ends in: "begin" (http.begin failed), "status" (code is not
\* HTTP_CODE_OK), "parse" (parseWifiConfigJson returned false) or "ok".
RequestOutcome(httpBegin, code, body) ==
  IF ~httpBegin THEN "begin"
  ELSE IF code # HTTP_CODE_OK THEN "status"
  ELSE IF ~parseWifiConfigJson(body).ok THEN "parse"
  ELSE "ok"

\* One request: http.begin, http.GET, http.getString, parseWifiConfigJson.
HttpAttempt(httpBegin, code, body) ==
  IF ~httpBegin \/ code # HTTP_CODE_OK
  THEN [ok |-> FALSE, ssid |-> "", pass |-> ""]
  ELSE parseWifiConfigJson(body)

\* Mutant: the last attempt is not made.
RetryAllowed_OneShort(n) == n < AWS_FETCH_MAX_RETRIES - 1

\* if (attempt < AWS_FETCH_MAX_RETRIES) { delay; continue; } return false;
RetryAllowed(n) == n < AWS_FETCH_MAX_RETRIES

fetch_attempt ==
  /\ pc = "fetch_attempt"
  /\ \E httpBegin \in BOOLEAN, code \in HttpCodes, body \in Bodies,
        beginOk \in BOOLEAN, putSsidOk \in PutAnswers, putPassOk \in PutAnswers :
       LET r == HttpAttempt(httpBegin, code, body) IN
       /\ httpResult' = [kind |-> RequestOutcome(httpBegin, code, body), n |-> attempt]
       /\ IF r.ok
          THEN /\ wifiSsidFromCloud' = r.ssid
               /\ wifiPasswordFromCloud' = r.pass
               /\ wifiConfigFromCloud' = TRUE
               /\ nvs' = saveWifiConfigToNVS(nvs, r.ssid, r.pass, beginOk, putSsidOk, putPassOk)
               /\ events' = Log("FetchOk",
                                IF beginOk /\ putSsidOk /\ putPassOk THEN 0 ELSE 1)
               /\ Return /\ ret' = TRUE
               /\ attempt' = 0
          ELSE /\ UNCHANGED << cloudV, nvs >>
               /\ IF RetryAllowed(attempt)
                  THEN /\ attempt' = attempt + 1
                       /\ UNCHANGED << ctlV, events >>
                  ELSE /\ Return /\ ret' = FALSE
                       /\ events' = Log("FetchFail", attempt)
                       /\ attempt' = 0
  /\ UNCHANGED << reachable, rough, viaIoT, i, nvsSsid, nvsPass, pre, uptime >>
  /\ UNCHANGED << wifiV, mqttV, iotV, capV, pubV >>

(***************************************************************************)
(* fetchWifiConfigFromIoT(), WIFI_CONFIG_VIA_IOT builds.                   *)
(***************************************************************************)
WIFI_CONFIG_IOT_WAIT_MS == 12000
IOT_POLL_DELAY_MS == 50
WIFI_CONFIG_RESPONSE_BUF_SZ == 512

\* Messages the broker may deliver while the device waits: the payload, its
\* length class and whether it is on wifi_config/response/{DEVICE_ID}.
Message(body, long, onTopic) == [body |-> body, long |-> long, onTopic |-> onTopic]
Messages ==
  { Message(b, FALSE, TRUE) : b \in Bodies } \cup
  { Message(Doc("cloudA", Null, "pA", Null), TRUE, TRUE),
    Message(Doc("cloudA", Null, "pA", Null), FALSE, FALSE) }

\* wifiConfigMqttCallback: what it leaves in wifiConfigResponseReceived / Buf.
\* A payload of WIFI_CONFIG_RESPONSE_BUF_SZ bytes or more is cut, which leaves
\* an incomplete document.
wifiConfigMqttCallback(msg, received, buf) ==
  IF ~msg.onTopic THEN [received |-> received, buf |-> buf]
  ELSE [received |-> TRUE, buf |-> IF msg.long THEN BadJson ELSE msg.body]

\* while (!wifiConfigResponseReceived && (millis() - start) < WAIT) { loop(); delay(50); }
\* mqttClient.loop() runs at millis() - start = 0, 50, 100, ... below WAIT.
IotPollTimes ==
  { k * IOT_POLL_DELAY_MS : k \in 0..((WIFI_CONFIG_IOT_WAIT_MS - 1) \div IOT_POLL_DELAY_MS) }

\* arriveAt is when the message reaches the client (-1: never); the result is
\* whether some mqttClient.loop() of the wait hands it to the callback.
IotWaitLoop(arriveAt, live) ==
  live /\ arriveAt # -1 /\ \E t \in IotPollTimes : arriveAt <= t

ArrivalTimes == { -1, 0, WIFI_CONFIG_IOT_WAIT_MS - IOT_POLL_DELAY_MS,
                  WIFI_CONFIG_IOT_WAIT_MS - IOT_POLL_DELAY_MS + 1 }

\* mqttClient.disconnect()
Disconnected(t) == IF t = "open" THEN "abandoned" ELSE t

fetchWifiConfigFromIoT ==
  /\ pc = "iot"
  /\ events' = Log("Fetch", IF Connected THEN 1 ELSE 0)
  /\ IF ~mqttConnected
     THEN /\ Return /\ ret' = FALSE
          /\ UNCHANGED << mqttCallback, iotV >>
     ELSE /\ wifiConfigResponseReceived' = FALSE
          /\ wifiConfigResponseBuf' = EmptyPayload
          /\ mqttCallback' = TRUE
          /\ \E subscribeOk \in BOOLEAN, publishOk \in BOOLEAN :
               IF subscribeOk /\ publishOk
               THEN /\ pc' = "iot_wait"
                    /\ UNCHANGED << stack, ret >>
               ELSE /\ Return /\ ret' = FALSE
  /\ UNCHANGED << mqttConnected, transfer, pre >>
  /\ UNCHANGED << envV, wifiV, locV, cloudV, capV, pubV >>
  /\ UNCHANGED auxV

\* The wait loop, setCallback(nullptr), parseWifiConfigJson, saveWifiConfigToNVS.
iot_wait ==
  /\ pc = "iot_wait"
  /\ \E msg \in Messages, arriveAt \in ArrivalTimes,
        beginOk \in BOOLEAN, putSsidOk \in PutAnswers, putPassOk \in PutAnswers :
       LET got == IotWaitLoop(arriveAt, mqttConnected)
           cb  == IF got
                  THEN wifiConfigMqttCallback(msg, wifiConfigResponseReceived,
                                              wifiConfigResponseBuf)
                  ELSE [received |-> wifiConfigResponseReceived,
                        buf |-> wifiConfigResponseBuf]
           r   == parseWifiConfigJson(cb.buf)
       IN
       \* a message on another topic does not end the wait; no second one follows
       /\ wifiConfigResponseReceived' = cb.received
       /\ wifiConfigResponseBuf' = cb.buf
       /\ mqttCallback' = FALSE
       /\ Return
       /\ IF cb.received /\ r.ok
          THEN /\ wifiSsidFromCloud' = r.ssid
               /\ wifiPasswordFromCloud' = r.pass
               /\ wifiConfigFromCloud' = TRUE
               /\ nvs' = saveWifiConfigToNVS(nvs, r.ssid, r.pass, beginOk, putSsidOk, putPassOk)
               /\ events' = Log("FetchOk",
                                IF beginOk /\ putSsidOk /\ putPassOk THEN 0 ELSE 1)
               /\ ret' = TRUE
          ELSE /\ UNCHANGED << cloudV, nvs >>
               /\ events' = Log("FetchFail", 1)
               /\ ret' = FALSE
  /\ UNCHANGED << reachable, rough, viaIoT, mqttConnected, transfer, pre >>
  /\ UNCHANGED << wifiV, locV, capV, pubV >>
  /\ UNCHANGED auxV

(***************************************************************************)
(* fetchFromAWSAndMaybeSwitch(): the HTTP build calls                      *)
(* fetchWifiConfigFromAWS(), the WIFI_CONFIG_VIA_IOT build calls           *)
(* ensureTimeIST(), connectAWS() and then fetchWifiConfigFromIoT().        *)
(***************************************************************************)
fetchFromAWSAndMaybeSwitch ==
  /\ pc = "fas"
  /\ IF viaIoT THEN Call("aws", "fas_aws") ELSE Call("fetch", "fas_fetched")
  /\ pre' = [link |-> wifiLink, prov |-> provenance, flag |-> wifiConfigFromCloud,
             nvs |-> nvs]
  /\ UNCHANGED << ret, events >>
  /\ UNCHANGED << envV, wifiV, locV, cloudV, mqttV, iotV, capV, pubV >>
  /\ UNCHANGED auxV

\* if (!connectAWS()) return;  fetchWifiConfigFromIoT()
fas_aws ==
  /\ pc = "fas_aws"
  /\ IF ret THEN Call("iot", "fas_fetched") ELSE Return
  /\ UNCHANGED << ret >>
  /\ UNCHANGED << envV, wifiV, locV, cloudV, mqttV, iotV, capV, pubV, logV >>
  /\ UNCHANGED auxV

\* Mutant: the link is dropped before the fetch result is looked at.
fas_fetched_DropsLinkFirst ==
  /\ pc = "fas_fetched"
  /\ wifiLink' = NoLink
  /\ provenance' = NoProv
  /\ IF ret
     THEN /\ wifiTarget' = Cred(wifiSsidFromCloud, wifiPasswordFromCloud)
          /\ timeoutMs' = CLOUD_WIFI_TIMEOUT_MS
          /\ events' = Log("TryCloud", -1)
          /\ Call("try", "fas_cloud")
     ELSE /\ Return
          /\ UNCHANGED << wifiTarget, timeoutMs, events >>
  /\ mqttConnected' = IF viaIoT THEN FALSE ELSE mqttConnected
  /\ transfer' = IF viaIoT THEN Disconnected(transfer) ELSE transfer
  /\ UNCHANGED << ret, elapsed, pre, mqttCallback, uptime >>
  /\ httpResult' = NoRequest
  /\ UNCHANGED << envV, locV, cloudV, iotV, capV, pubV >>

\* if (fetch...()) { [mqttClient.disconnect();] WiFi.disconnect(true);
\*                   tryConnectWifiWithTimeout(cloud...) } else { [mqttClient.disconnect();] }
fas_fetched ==
  /\ pc = "fas_fetched"
  /\ IF ret
     THEN /\ wifiLink' = NoLink
          /\ provenance' = NoProv
          /\ wifiTarget' = Cred(wifiSsidFromCloud, wifiPasswordFromCloud)
          /\ timeoutMs' = CLOUD_WIFI_TIMEOUT_MS
          /\ events' = Log("TryCloud", -1)
          /\ Call("try", "fas_cloud")
     ELSE /\ Return
          /\ UNCHANGED << wifiLink, provenance, wifiTarget, timeoutMs, events >>
  /\ mqttConnected' = IF viaIoT THEN FALSE ELSE mqttConnected
  /\ transfer' = IF viaIoT THEN Disconnected(transfer) ELSE transfer
  /\ UNCHANGED << ret, elapsed, pre, mqttCallback, uptime >>
  /\ httpResult' = NoRequest
  /\ UNCHANGED << envV, locV, cloudV, iotV, capV, pubV >>

\* if (tryConnect...) return;  wifiConfigFromCloud = false; connectWithDefaultWifiList();
fas_cloud ==
  /\ pc = "fas_cloud"
  /\ IF ret
     THEN /\ Return
          /\ provenance' = Prov("CloudFetched", -1)
          /\ UNCHANGED << wifiConfigFromCloud >>
     ELSE /\ Call("dflt", "fas_ret")
          /\ wifiConfigFromCloud' = FALSE
          /\ UNCHANGED << provenance >>
  /\ UNCHANGED << ret, wifiLink, wifiTarget, timeoutMs, elapsed >>
  /\ UNCHANGED << wifiSsidFromCloud, wifiPasswordFromCloud >>
  /\ UNCHANGED << envV, locV, mqttV, iotV, capV, pubV, logV >>
  /\ UNCHANGED auxV

\* Mutant: with a link from the default list after a failed switch, the
\* fetch is made a second time.
fas_ret_FetchesAgain ==
  /\ pc = "fas_ret"
  /\ IF ret /\ Count("Fetch") < 2
     THEN pc' = "fas" /\ UNCHANGED << stack >>
     ELSE Return
  /\ UNCHANGED << ret >>
  /\ UNCHANGED << envV, wifiV, locV, cloudV, mqttV, iotV, capV, pubV, logV >>
  /\ UNCHANGED auxV

fas_ret ==
  /\ pc = "fas_ret"
  /\ Return
  /\ UNCHANGED << ret >>
  /\ UNCHANGED << envV, wifiV, locV, cloudV, mqttV, iotV, capV, pubV, logV >>
  /\ UNCHANGED auxV

(***************************************************************************)
(* ensureWiFiConnected()                                                   *)
(***************************************************************************)
\* Mutant: the default list is tried before the saved NVS credential.
ensureWiFiConnected_DefaultFirst ==
  /\ pc = "ensure"
  /\ IF Connected
     THEN /\ Return
          /\ UNCHANGED << nvsSsid, nvsPass, events >>
     ELSE \E beginOk \in BOOLEAN :
            LET r == loadWifiConfigFromNVS(nvs, beginOk) IN
            /\ nvsSsid' = r.ssid
            /\ nvsPass' = r.pass
            /\ pc' = "ensure_default"
            /\ events' = Log("Load", IF r.ok THEN 1 ELSE 0)
            /\ UNCHANGED << stack >>
  /\ UNCHANGED << ret, wifiLink, wifiTarget, timeoutMs, elapsed, provenance, i, attempt, pre >>
  /\ UNCHANGED << envV, cloudV, mqttV, iotV, capV, pubV >>
  /\ UNCHANGED auxV

ensureWiFiConnected ==
  /\ pc = "ensure"
  /\ IF Connected
     THEN /\ Return
          /\ UNCHANGED << nvsSsid, nvsPass, wifiTarget, timeoutMs, events >>
     ELSE \E beginOk \in BOOLEAN :
            LET r == loadWifiConfigFromNVS(nvs, beginOk) IN
            /\ nvsSsid' = r.ssid
            /\ nvsPass' = r.pass
            /\ IF r.ok
               THEN /\ wifiTarget' = Cred(r.ssid, r.pass)
                    /\ timeoutMs' = CLOUD_WIFI_TIMEOUT_MS
                    /\ events' = events \o << Ev("Load", 1), Ev("TryCached", -1) >>
                    /\ Call("try", "ensure_nvs")
               ELSE /\ pc' = "ensure_default"
                    /\ events' = Log("Load", 0)
                    /\ UNCHANGED << stack, wifiTarget, timeoutMs >>
  /\ UNCHANGED << ret, wifiLink, elapsed, provenance, i, attempt, pre >>
  /\ UNCHANGED << envV, cloudV, mqttV, iotV, capV, pubV >>
  /\ UNCHANGED auxV

\* if (tryConnectWifiWithTimeout(nvs...)) { fetchFromAWSAndMaybeSwitch(); return; }
ensure_nvs ==
  /\ pc = "ensure_nvs"
  /\ IF ret
     THEN /\ Call("fas", "ensure_ret")
          /\ provenance' = Prov("Cached", -1)
     ELSE /\ pc' = "ensure_default"
          /\ UNCHANGED << stack, provenance >>
  /\ UNCHANGED << ret, wifiLink, wifiTarget, timeoutMs, elapsed >>
  /\ UNCHANGED << envV, locV, cloudV, mqttV, iotV, capV, pubV, logV >>
  /\ UNCHANGED auxV

ensure_default ==
  /\ pc = "ensure_default"
  /\ Call("dflt", "ensure_dflt")
  /\ UNCHANGED << ret >>
  /\ UNCHANGED << envV, wifiV, locV, cloudV, mqttV, iotV, capV, pubV, logV >>
  /\ UNCHANGED auxV

\* if (!connectWithDefaultWifiList()) return;  fetchFromAWSAndMaybeSwitch();
ensure_dflt ==
  /\ pc = "ensure_dflt"
  /\ IF ret THEN Call("fas", "ensure_ret") ELSE Return
  /\ UNCHANGED << ret >>
  /\ UNCHANGED << envV, wifiV, locV, cloudV, mqttV, iotV, capV, pubV, logV >>
  /\ UNCHANGED auxV

ensure_ret ==
  /\ pc = "ensure_ret"
  /\ Return
  /\ UNCHANGED << ret >>
  /\ UNCHANGED << envV, wifiV, locV, cloudV, mqttV, iotV, capV, pubV, logV >>
  /\ UNCHANGED auxV

(***************************************************************************)
(* connectAWS(): one mqttClient.connect unless the session is already up.  *)
(***************************************************************************)
connectAWS ==
  /\ pc = "aws"
  /\ IF mqttConnected
     THEN /\ Return /\ ret' = TRUE
          /\ UNCHANGED << mqttConnected, events >>
     ELSE \E ok \in (IF Connected THEN BOOLEAN ELSE { FALSE }) :
            /\ mqttConnected' = ok
            /\ events' = Log("BrokerConnect", IF ok THEN 1 ELSE 0)
            /\ Return /\ ret' = ok
  /\ UNCHANGED << mqttCallback, transfer, pre >>
  /\ UNCHANGED << envV, wifiV, locV, cloudV, iotV, capV, pubV >>
  /\ UNCHANGED auxV

\* The broker session is lost (TCP reset, keep-alive expiry) while the device is awake.
BrokerDrop ==
  /\ rough
  /\ pc # "asleep"
  /\ mqttConnected
  /\ mqttConnected' = FALSE
  /\ UNCHANGED << mqttCallback, transfer >>
  /\ UNCHANGED << envV, ctlV, wifiV, locV, cloudV, iotV, capV, pubV, logV >>
  /\ UNCHANGED auxV

(***************************************************************************)
(* captureToPSRAM(outBuf, outLen).  frame = -1: esp_camera_fb_get gave no  *)
(* frame; pool = which of ps_malloc, heap_caps_malloc, malloc gave memory  *)
(* (0: none).                                                              *)
(***************************************************************************)
\* fb->len of the frames the camera delivers; -1: no frame.
FrameLens ==
  IF rough
  THEN { -1, 0, 1, PUBLISH_CHUNK_SZ, PUBLISH_CHUNK_SZ + 1, 2 * PUBLISH_CHUNK_SZ + 1,
         MQTT_MAX_IMAGE_BYTES + 1 }
  ELSE { PUBLISH_CHUNK_SZ + 1 }

\* Which allocator gives memory for the copy.
Pools == IF rough THEN 0..3 ELSE { 1 }

\* Mutant: a frame of exactly the ceiling is refused too.
TooLarge_Inclusive(flen) == flen >= MQTT_MAX_IMAGE_BYTES

\* if (fb->len > MQTT_MAX_IMAGE_BYTES)
TooLarge(flen) == flen > MQTT_MAX_IMAGE_BYTES

\* Mutant: when no allocator gives memory the frame is not handed back.
captureToPSRAM_KeepsFrameOnNoMemory(frame, pool) ==
  IF frame = -1
  THEN [ok |-> FALSE, img |-> Null, len |-> 0,
        cam |-> [got |-> FALSE, flen |-> 0, returns |-> 0, allocs |-> 0,
                 copied |-> FALSE, frees |-> 0]]
  ELSE IF TooLarge(frame)
  THEN [ok |-> FALSE, img |-> Null, len |-> 0,
        cam |-> [got |-> TRUE, flen |-> frame, returns |-> 1, allocs |-> 0,
                 copied |-> FALSE, frees |-> 0]]
  ELSE IF pool = 0
  THEN [ok |-> FALSE, img |-> Null, len |-> 0,
        cam |-> [got |-> TRUE, flen |-> frame, returns |-> 0, allocs |-> 3,
                 copied |-> FALSE, frees |-> 0]]
  ELSE [ok |-> TRUE, img |-> "copy", len |-> frame,
        cam |-> [got |-> TRUE, flen |-> frame, returns |-> 1, allocs |-> pool,
                 copied |-> TRUE, frees |-> 0]]

captureToPSRAM(frame, pool) ==
  IF frame = -1
  THEN [ok |-> FALSE, img |-> Null, len |-> 0,
        cam |-> [got |-> FALSE, flen |-> 0, returns |-> 0, allocs |-> 0,
                 copied |-> FALSE, frees |-> 0]]
  ELSE IF TooLarge(frame)
  THEN [ok |-> FALSE, img |-> Null, len |-> 0,
        cam |-> [got |-> TRUE, flen |-> frame, returns |-> 1, allocs |-> 0,
                 copied |-> FALSE, frees |-> 0]]
  ELSE IF pool = 0
  THEN [ok |-> FALSE, img |-> Null, len |-> 0,
        cam |-> [got |-> TRUE, flen |-> frame, returns |-> 1, allocs |-> 3,
                 copied |-> FALSE, frees |-> 0]]
  ELSE [ok |-> TRUE, img |-> "copy", len |-> frame,
        cam |-> [got |-> TRUE, flen |-> frame, returns |-> 1, allocs |-> pool,
                 copied |-> TRUE, frees |-> 0]]

(***************************************************************************)
(* publishImageBinary(data, len)                                           *)
(***************************************************************************)
\* Mutant: every chunk is a full chunk.
ChunkLen_NoMin(total, done) == PUBLISH_CHUNK_SZ

\* size_t n = min((size_t)PUBLISH_CHUNK_SZ, len - sent);
ChunkLen(total, done) == Min(PUBLISH_CHUNK_SZ, total - done)

\* What mqttClient.write(data + sent, n) may return: nothing once the session is
\* gone, else nothing, all of it, or (at most MaxPartial times) a part of it.
WriteResults(n) ==
  IF ~mqttConnected THEN { 0 }
  ELSE IF ~rough THEN { n }
  ELSE { 0, n } \cup (IF pub.partials < MaxPartial /\ n > 1 THEN { 1, n - 1 } ELSE { })

\* bool ok = (sent == len) && mqttClient.endPublish();
EndPublishCalled(done, total) == done = total
\* Mutant: the result of endPublish is ignored.
PublishOk_IgnoresEnd(done, total, endOk) == done = total
PublishOk(done, total, endOk) == done = total /\ endOk

\* Mutant: the transfer is begun without looking at the broker session.
publishImageBinary_NoSessionCheck ==
  /\ pc = "pub"
  /\ IF img = Null \/ len = 0
     THEN /\ Return /\ ret' = FALSE
          /\ pub' = [NoPub EXCEPT !.result = "fail"]
          /\ UNCHANGED << transfer, sent >>
     ELSE \E beginOk \in Answers :
            IF ~beginOk
            THEN /\ Return /\ ret' = FALSE
                 /\ pub' = [NoPub EXCEPT !.beginCalls = 1, !.result = "fail"]
                 /\ UNCHANGED << transfer, sent >>
            ELSE /\ pc' = "pub_loop"
                 /\ transfer' = "open"
                 /\ sent' = 0
                 /\ pub' = [NoPub EXCEPT !.beginCalls = 1, !.begun = TRUE]
                 /\ UNCHANGED << stack, ret >>
  /\ UNCHANGED << mqttConnected, mqttCallback >>
  /\ UNCHANGED << envV, wifiV, locV, cloudV, iotV, capV, logV >>
  /\ UNCHANGED auxV

\* if (!data || len == 0 || !mqttClient.connected()) return false;  beginPublish
publishImageBinary ==
  /\ pc = "pub"
  /\ IF img = Null \/ len = 0 \/ ~mqttConnected
     THEN /\ Return /\ ret' = FALSE
          /\ pub' = [NoPub EXCEPT !.result = "fail"]
          /\ UNCHANGED << transfer, sent >>
     ELSE \E beginOk \in Answers :
            IF ~beginOk
            THEN /\ Return /\ ret' = FALSE
                 /\ pub' = [NoPub EXCEPT !.beginCalls = 1, !.result = "fail"]
                 /\ UNCHANGED << transfer, sent >>
            ELSE /\ pc' = "pub_loop"
                 /\ transfer' = "open"
                 /\ sent' = 0
                 /\ pub' = [NoPub EXCEPT !.beginCalls = 1, !.begun = TRUE]
                 /\ UNCHANGED << stack, ret >>
  /\ UNCHANGED << mqttConnected, mqttCallback >>
  /\ UNCHANGED << envV, wifiV, locV, cloudV, iotV, capV, logV >>
  /\ UNCHANGED auxV

\* Mutant: a write that takes nothing is skipped over instead of ending the loop.
pub_loop_SkipsRefusedChunk ==
  /\ pc = "pub_loop"
  /\ IF sent < len
     THEN \E w \in WriteResults(ChunkLen(len, sent)) :
            /\ pub' = [pub EXCEPT !.writes = @ + 1,
                                  !.maxOffered = IF ChunkLen(len, sent) > @
                                                 THEN ChunkLen(len, sent) ELSE @,
                                  !.accepted = @ + w,
                                  !.afterZero = IF pub.zero THEN @ + 1 ELSE @,
                                  !.zero = @ \/ w = 0,
                                  !.partials = IF w # 0 /\ w # ChunkLen(len, sent)
                                               THEN @ + 1 ELSE @]
            /\ sent' = sent + (IF w = 0 THEN ChunkLen(len, sent) ELSE w)
            /\ UNCHANGED << pc >>
     ELSE /\ pc' = "pub_end"
          /\ UNCHANGED << sent, pub >>
  /\ UNCHANGED << stack, ret >>
  /\ UNCHANGED << envV, wifiV, locV, cloudV, mqttV, iotV, capV, logV >>
  /\ UNCHANGED auxV

\* while (sent < len) { n = ...; w = write(...); if (w == 0) break; sent += w; }
pub_loop ==
  /\ pc = "pub_loop"
  /\ IF sent < len
     THEN \E w \in WriteResults(ChunkLen(len, sent)) :
            /\ pub' = [pub EXCEPT !.writes = @ + 1,
                                  !.maxOffered = IF ChunkLen(len, sent) > @
                                                 THEN ChunkLen(len, sent) ELSE @,
                                  !.accepted = @ + w,
                                  !.afterZero = IF pub.zero THEN @ + 1 ELSE @,
                                  !.zero = @ \/ w = 0,
                                  !.partials = IF w # 0 /\ w # ChunkLen(len, sent)
                                               THEN @ + 1 ELSE @]
            /\ IF w = 0
               THEN pc' = "pub_end" /\ UNCHANGED << sent >>
               ELSE sent' = sent + w /\ UNCHANGED << pc >>
     ELSE /\ pc' = "pub_end"
          /\ UNCHANGED << sent, pub >>
  /\ UNCHANGED << stack, ret >>
  /\ UNCHANGED << envV, wifiV, locV, cloudV, mqttV, iotV, capV, logV >>
  /\ UNCHANGED auxV

pub_end ==
  /\ pc = "pub_end"
  /\ \E endOk \in Answers :
       /\ transfer' = IF EndPublishCalled(sent, len) THEN "finalized" ELSE transfer
       /\ ret' = PublishOk(sent, len, endOk)
       /\ pub' = [pub EXCEPT !.endPublish = IF ~EndPublishCalled(sent, len) THEN "none"
                                            ELSE IF endOk THEN "ok" ELSE "fail",
                             !.result = IF PublishOk(sent, len, endOk) THEN "ok" ELSE "fail"]
  /\ Return
  /\ UNCHANGED << mqttConnected, mqttCallback, sent >>
  /\ UNCHANGED << envV, wifiV, locV, cloudV, iotV, capV, logV >>
  /\ UNCHANGED auxV

(***************************************************************************)
(* setup(): one wake cycle.  goToSleep() does not return.                  *)
(***************************************************************************)
goToSleep ==
  /\ pc' = "asleep"
  /\ stack' = << >>
  /\ events' = Log("Sleep", -1)

\* if (!initCamera()) goToSleep();  ensureWiFiConnected();
setup ==
  /\ pc = "setup"
  /\ \E cameraOk \in BOOLEAN :
       IF cameraOk
       THEN /\ Call("ensure", "setup_wifi")
            /\ events' = Log("Resolve", -1)
       ELSE goToSleep
  /\ UNCHANGED << ret, pre >>
  /\ UNCHANGED << envV, wifiV, locV, cloudV, mqttV, iotV, capV, pubV >>
  /\ UNCHANGED auxV

\* Mutant: without a link the device waits for one instead of sleeping.
setup_wifi_WaitsForLink ==
  /\ pc = "setup_wifi"
  /\ IF Connected
     THEN pc' = "setup_time"
     ELSE pc' = "setup_wifi"
  /\ nvsSsid' = "" /\ nvsPass' = "" /\ i' = 0
  /\ UNCHANGED << stack, events, ret, attempt, pre >>
  /\ UNCHANGED << envV, wifiV, cloudV, mqttV, iotV, capV, pubV >>
  /\ UNCHANGED auxV

\* if (WiFi.status() != WL_CONNECTED) goToSleep();
setup_wifi ==
  /\ pc = "setup_wifi"
  /\ IF Connected
     THEN /\ pc' = "setup_time"
          /\ UNCHANGED << stack, events >>
     ELSE goToSleep
  /\ nvsSsid' = "" /\ nvsPass' = "" /\ i' = 0
  /\ UNCHANGED << ret, attempt, pre >>
  /\ UNCHANGED << envV, wifiV, cloudV, mqttV, iotV, capV, pubV >>
  /\ UNCHANGED auxV

\* ensureTimeIST(): configTime and at most 20 polls of 250 ms; then connectAWS().
ensureTimeIST ==
  /\ pc = "setup_time"
  /\ Call("aws", "setup_aws")
  /\ UNCHANGED << ret >>
  /\ UNCHANGED << envV, wifiV, locV, cloudV, mqttV, iotV, capV, pubV, logV >>
  /\ UNCHANGED auxV

\* Mutant: the capture goes ahead whatever connectAWS returned.
setup_aws_IgnoresResult ==
  /\ pc = "setup_aws"
  /\ pc' = "setup_capture"
  /\ UNCHANGED << stack, events, ret, pre >>
  /\ UNCHANGED << envV, wifiV, locV, cloudV, mqttV, iotV, capV, pubV >>
  /\ UNCHANGED auxV

\* if (!connectAWS()) goToSleep();
setup_aws ==
  /\ pc = "setup_aws"
  /\ IF ret
     THEN /\ pc' = "setup_capture"
          /\ UNCHANGED << stack, events >>
     ELSE goToSleep
  /\ UNCHANGED << ret, pre >>
  /\ UNCHANGED << envV, wifiV, locV, cloudV, mqttV, iotV, capV, pubV >>
  /\ UNCHANGED auxV

\* if (captureToPSRAM(img, len)) { ... } else { Serial.println("Capture failed."); }
setup_capture ==
  /\ pc = "setup_capture"
  /\ \E frame \in FrameLens, pool \in Pools :
       LET c == captureToPSRAM(frame, pool) IN
       /\ img' = c.img
       /\ len' = c.len
       /\ cam' = c.cam
       /\ events' = Log("Capture", IF c.ok THEN 1 ELSE 0)
       /\ pc' = IF c.ok THEN "setup_pub" ELSE "setup_teardown"
  /\ UNCHANGED << stack, ret, pre >>
  /\ UNCHANGED << envV, wifiV, locV, cloudV, mqttV, iotV, pubV >>
  /\ UNCHANGED auxV

\* Mutant: the buffer is freed only when the publish was attempted.
setup_pub_FreeInsideIf ==
  /\ pc = "setup_pub"
  /\ IF mqttConnected
     THEN /\ Call("pub", "setup_free")
          /\ events' = Log("Publish", -1)
     ELSE /\ pc' = "setup_teardown"
          /\ UNCHANGED << stack, events >>
  /\ UNCHANGED << ret, pre >>
  /\ UNCHANGED << envV, wifiV, locV, cloudV, mqttV, iotV, capV, pubV >>
  /\ UNCHANGED auxV

\* if (mqttClient.connected()) publishImageBinary(img, len);
setup_pub ==
  /\ pc = "setup_pub"
  /\ IF mqttConnected
     THEN /\ Call("pub", "setup_free")
          /\ events' = Log("Publish", -1)
     ELSE /\ pc' = "setup_free"
          /\ UNCHANGED << stack, events >>
  /\ UNCHANGED << ret, pre >>
  /\ UNCHANGED << envV, wifiV, locV, cloudV, mqttV, iotV, capV, pubV >>
  /\ UNCHANGED auxV

\* free(img);
setup_free ==
  /\ pc = "setup_free"
  /\ pc' = "setup_teardown"
  /\ cam' = [cam EXCEPT !.frees = @ + 1]
  /\ UNCHANGED << stack, ret, img, len >>
  /\ UNCHANGED << envV, wifiV, locV, cloudV, mqttV, iotV, pubV, logV >>
  /\ UNCHANGED auxV

\* mqttClient.disconnect(); WiFi.disconnect(true); goToSleep();
setup_teardown ==
  /\ pc = "setup_teardown"
  /\ mqttConnected' = FALSE
  /\ transfer' = Disconnected(transfer)
  /\ wifiLink' = NoLink
  /\ goToSleep
  /\ UNCHANGED << ret, wifiTarget, timeoutMs, elapsed, provenance, pre, mqttCallback >>
  /\ UNCHANGED << envV, locV, cloudV, iotV, capV, pubV >>
  /\ UNCHANGED auxV

\* The wake timer fires: the chip reboots, only the NVS record survives.
Wake ==
  /\ pc = "asleep"
  /\ \E sur \in Surroundings : reachable' = sur[1] /\ rough' = sur[2]
  /\ pc' = "setup" /\ stack' = << >> /\ ret' = FALSE
  /\ wifiLink' = NoLink /\ wifiTarget' = NoLink /\ timeoutMs' = 0 /\ elapsed' = 0
  /\ provenance' = NoProv
  /\ i' = 0 /\ attempt' = 0 /\ nvsSsid' = "" /\ nvsPass' = ""
  /\ wifiSsidFromCloud' = "" /\ wifiPasswordFromCloud' = "" /\ wifiConfigFromCloud' = FALSE
  /\ mqttConnected' = FALSE /\ mqttCallback' = FALSE /\ transfer' = "none"
  /\ wifiConfigResponseReceived' = FALSE /\ wifiConfigResponseBuf' = EmptyPayload
  /\ cam' = NoCam /\ img' = Null /\ len' = 0
  /\ sent' = 0 /\ pub' = NoPub
  /\ events' = << >> /\ pre' = NoPre
  /\ httpResult' = NoRequest
  /\ UNCHANGED << nvs, viaIoT, uptime >>

Step ==
  \/ setup \/ setup_wifi \/ ensureTimeIST \/ setup_aws \/ setup_capture
  \/ setup_pub \/ setup_free \/ setup_teardown
  \/ ensureWiFiConnected \/ ensure_nvs \/ ensure_default \/ ensure_dflt \/ ensure_ret
  \/ tryConnectWifiWithTimeout \/ try_done
  \/ connectWithDefaultWifiList \/ dflt_loop \/ dflt_check
  \/ fetchFromAWSAndMaybeSwitch \/ fas_aws \/ fas_fetched \/ fas_cloud \/ fas_ret
  \/ fetchWifiConfigFromAWS \/ fetch_attempt
  \/ fetchWifiConfigFromIoT \/ iot_wait
  \/ connectAWS
  \/ publishImageBinary \/ pub_loop \/ pub_end

Next == Step \/ BrokerDrop \/ Wake

Spec == Init /\ [][Next]_vars

\* The processor keeps executing while awake, and the wake timer fires.
FairSpec == Spec /\ WF_vars(Step) /\ WF_vars(Wake)

(***************************************************************************)
(* Single functions on their own.  Each specification below starts from    *)
(* the state at boot, with control at one function, and applies that       *)
(* function to every input of a bounded set, as often as it likes.         *)
(***************************************************************************)
\* The state at boot with control at position p, the link on credential
\* link and the broker session up or not.
Entered(p, link, session) ==
  /\ reachable = { } /\ rough = FALSE
  /\ viaIoT \in BOOLEAN
  /\ pc = p /\ stack = << >> /\ ret = FALSE
  /\ wifiLink = link /\ wifiTarget = link /\ timeoutMs = 0 /\ elapsed = 0
  /\ provenance = NoProv
  /\ i = 0 /\ attempt = 0 /\ nvsSsid = "" /\ nvsPass = ""
  /\ wifiSsidFromCloud = "" /\ wifiPasswordFromCloud = "" /\ wifiConfigFromCloud = FALSE
  /\ mqttConnected = session /\ mqttCallback = FALSE /\ transfer = "none"
  /\ wifiConfigResponseReceived = FALSE /\ wifiConfigResponseBuf = EmptyPayload
  /\ cam = NoCam /\ img = Null /\ len = 0
  /\ sent = 0 /\ pub = NoPub
  /\ events = << >> /\ pre = NoPre
  /\ httpResult = NoRequest /\ uptime = 0

Booted(p) == Entered(p, NoLink, FALSE)

\* captureToPSRAM on frames around the size ceiling, with every allocator outcome.
CeilingFrames ==
  { -1, 0, 1 } \cup
  { MQTT_MAX_IMAGE_BYTES + d : d \in (0 - CeilingMargin)..CeilingMargin }

capture_only ==
  /\ pc = "capture"
  /\ \E frame \in CeilingFrames, pool \in 0..3 :
       LET c == captureToPSRAM(frame, pool) IN
       /\ img' = c.img
       /\ len' = c.len
       /\ cam' = c.cam
       /\ ret' = c.ok
  /\ UNCHANGED << pc, stack >>
  /\ UNCHANGED << envV, wifiV, locV, cloudV, mqttV, iotV, pubV, logV, auxV >>

CaptureInit == nvs = EmptyStore /\ Booted("capture")
CaptureSpec == CaptureInit /\ [][capture_only]_vars

\* parseWifiConfigJson on every document over two identifiers and two
\* secrets, each field absent (Null), empty or set, and on an empty and an
\* unparsable payload; the globals are assigned as the function assigns them.
ParseFieldIds == { Null, "", "cloudA", "cloudB" }
ParseFieldSecrets == { Null, "", "pA", "pB" }
ParseInputs ==
  { EmptyPayload, BadJson } \cup
  { Doc(s, ws, p, wp) : s \in ParseFieldIds, ws \in ParseFieldIds,
                        p \in ParseFieldSecrets, wp \in ParseFieldSecrets }

parse_only ==
  /\ pc = "parse"
  /\ \E payload \in ParseInputs :
       LET r == parseWifiConfigJson(payload) IN
       /\ wifiConfigResponseBuf' = payload
       /\ ret' = r.ok
       /\ IF r.ok
          THEN /\ wifiSsidFromCloud' = r.ssid
               /\ wifiPasswordFromCloud' = r.pass
               /\ wifiConfigFromCloud' = TRUE
          ELSE UNCHANGED cloudV
  /\ UNCHANGED << pc, stack, wifiConfigResponseReceived >>
  /\ UNCHANGED << envV, wifiV, locV, mqttV, capV, pubV, logV, auxV >>

ParseInit == nvs = EmptyStore /\ Booted("parse")
ParseSpec == ParseInit /\ [][parse_only]_vars

\* saveWifiConfigToNVS and loadWifiConfigFromNVS on their own, with every
\* answer of prefs.begin and prefs.putString.  The arguments of the last save
\* are kept in wifiSsidFromCloud / wifiPasswordFromCloud (what the sketch passes),
\* the outputs of the last load in nvsSsid / nvsPass, and events names the last call.
StoreCreds == CloudCreds \cup { Cred("cloudA", "pB"), Cred("cloudB", "") }

store_save ==
  /\ pc = "store"
  /\ \E c \in StoreCreds, beginOk \in BOOLEAN, putSsidOk \in BOOLEAN, putPassOk \in BOOLEAN :
       /\ wifiSsidFromCloud' = c.ssid
       /\ wifiPasswordFromCloud' = c.pass
       /\ nvs' = saveWifiConfigToNVS(nvs, c.ssid, c.pass, beginOk, putSsidOk, putPassOk)
       /\ events' = << Ev("Save", IF beginOk /\ putSsidOk /\ putPassOk THEN 0 ELSE 1) >>
  /\ UNCHANGED << reachable, rough, viaIoT, wifiConfigFromCloud, pre >>
  /\ UNCHANGED << ctlV, wifiV, locV, mqttV, iotV, capV, pubV, auxV >>

store_load ==
  /\ pc = "store"
  /\ \E beginOk \in BOOLEAN :
       LET r == loadWifiConfigFromNVS(nvs, beginOk) IN
       /\ nvsSsid' = r.ssid
       /\ nvsPass' = r.pass
       /\ ret' = r.ok
       /\ events' = << Ev("Load", IF r.ok THEN 1 ELSE 0) >>
  /\ UNCHANGED << pc, stack, i, attempt, pre >>
  /\ UNCHANGED << envV, wifiV, cloudV, mqttV, iotV, capV, pubV, auxV >>

StoreInit == nvs = EmptyStore /\ Booted("store")
StoreNext == store_save \/ store_load
StoreSpec == StoreInit /\ [][StoreNext]_vars

\* loop() on its own.  The Arduino core calls loop() again and again once
\* setup() has returned; in this sketch setup() ends in goToSleep(), which
\* does not return, so Spec never gets here.  ContinuousSpec enters loop()
\* directly, with the link and the broker session up or down, to see what
\* its passes do.
\* void loop() { delay(1000); }
loop ==
  /\ pc = "loop"
  /\ uptime < MaxLoopTicks * LOOP_DELAY_MS
  /\ uptime' = uptime + LOOP_DELAY_MS
  /\ UNCHANGED << httpResult >>
  /\ UNCHANGED << envV, ctlV, wifiV, locV, cloudV, mqttV, iotV, capV, pubV, logV >>

LoopInit ==
  /\ nvs = EmptyStore
  /\ \E link \in { NoLink, defaultWifiList[1] }, session \in BOOLEAN :
       /\ session => link # NoLink
       /\ Entered("loop", link, session)
ContinuousSpec == LoopInit /\ [][loop]_vars

(***************************************************************************)
(* Properties.                                                             *)
(***************************************************************************)
Events == 1..Len(events)
\* ensureWiFiConnected has returned to setup
Resolved == pc = "setup_wifi"
\* fetchFromAWSAndMaybeSwitch is looking at the result of its fetch call
FetchReturned == pc = "fas_fetched"
\* the fetch of this cycle succeeded and the switch to the fetched credential failed
SwitchFailed == Happened("TryCloud") /\ provenance.src # "CloudFetched"
ReachableDefaults == { k \in 0..(DEFAULT_WIFI_COUNT - 1) : defaultWifiList[k + 1] \in reachable }
FirstReachableDefault ==
  CHOOSE k \in ReachableDefaults : \A j \in ReachableDefaults : k <= j
Fetched == Cred(wifiSsidFromCloud, wifiPasswordFromCloud)

C2_LinkAfterFailedSwitch ==
  (Resolved /\ SwitchFailed) => Connected

\* C3: when the fetch call returns failure, the link is up on the credential
\* it was on before the call, with the same provenance and from-cloud flag,
\* and the NVS record is what it was; this still holds when the resolution ends.
C3_FailedFetchChangesNothing ==
  ((FetchReturned /\ ~ret) \/ (Resolved /\ Happened("Fetch") /\ ~Happened("FetchOk")))
    => /\ Connected
       /\ wifiLink = pre.link
       /\ provenance = pre.prov
       /\ wifiConfigFromCloud = pre.flag
       /\ nvs = pre.nvs

C3_Witness ==
  /\ FetchReturned /\ ~ret /\ Happened("FetchFail")
  /\ pre.nvs # EmptyStore /\ pre.prov.src = "DefaultList"

\* C4: from a successful fetch without a storage fault until the device
\* sleeps, the NVS record is exactly the fetched credential, whether or not
\* the switch to it succeeded; the record survives the sleep, and a cycle that
\* loads a record tries exactly the stored credential, before anything else.
C4_StoreHoldsFetched ==
  /\ [](Ev("FetchOk", 0) \in { events[n] : n \in Events } => nvs = Fetched)
  /\ [][pc = "asleep" => nvs' = nvs]_vars
  /\ []((pc = "try" /\ Head(stack) = "ensure_nvs")
          => /\ wifiTarget = Cred(nvs.ssid, nvs.pass)
             /\ events = << Ev("Resolve", -1), Ev("Load", 1), Ev("TryCached", -1) >>)

C4_Witness ==
  /\ Resolved /\ SwitchFailed
  /\ Ev("FetchOk", 0) \in { events[n] : n \in Events }
  /\ nvs = Fetched /\ Fetched \notin reachable
  /\ pre.nvs # EmptyStore /\ pre.nvs # nvs

\* C5: when the fetch succeeded and the fetched credential was not joined
\* within CLOUD_WIFI_TIMEOUT_MS, the default list is scanned again; the
\* resolution ends on the first default entry in range with provenance
\* DefaultList and the from-cloud flag cleared, or with no link when no
\* default entry is in range.
C5_FallbackToDefaultList ==
  /\ (pc = "try_done" /\ Head(stack) = "fas_cloud" /\ ~Connected)
       => elapsed >= CLOUD_WIFI_TIMEOUT_MS
  /\ (Resolved /\ SwitchFailed)
       => /\ \E m, n \in Events :
               m < n /\ events[m].e = "TryCloud" /\ events[n] = Ev("TryDefault", 0)
          /\ ~wifiConfigFromCloud
          /\ IF ReachableDefaults # { }
             THEN /\ wifiLink = defaultWifiList[FirstReachableDefault + 1]
                  /\ provenance = Prov("DefaultList", FirstReachableDefault)
             ELSE ~Connected /\ provenance = NoProv

C5_Witness ==
  /\ Resolved /\ SwitchFailed
  /\ provenance = Prov("DefaultList", 1)

\* publishImageBinary has returned to setup
Published == pc = "setup_free" /\ pub.result # "none"
CeilDiv(a, b) == (a + b - 1) \div b

\* C6: every wake cycle reaches goToSleep: whenever the device is awake it
\* is eventually asleep, whatever fails on the way.
C6_EveryCycleSleeps == (pc # "asleep") ~> (pc = "asleep")

C6_Witness ==
  /\ pc = "asleep"
  /\ Happened("Publish") /\ pub.result = "fail" /\ pub.zero
  /\ cam.frees = 1

\* C7: when publishImageBinary returns after beginPublish succeeded, the
\* transfer has been finalized (endPublish) or abandoned, never left open.
C7_TransferClosedOnReturn ==
  (Published /\ pub.begun) => transfer \in { "finalized", "abandoned" }

\* C8: publishImageBinary returns true exactly when beginPublish succeeded,
\* the bytes accepted by the transport add up to len and endPublish returned
\* true; a zero-byte write, a failed begin or a failed endPublish give false.
C8_SuccessOnlyIfAllWrittenAndFinalized ==
  /\ pub.result = "ok"
       <=> (pub.begun /\ pub.accepted = len /\ pub.endPublish = "ok")
  /\ pub.result = "ok" => ~pub.zero /\ sent = len
  /\ Published => ret = (pub.result = "ok")

C8_Witness ==
  /\ Published /\ ~ret
  /\ pub.accepted = len /\ pub.endPublish = "fail" /\ pub.writes >= 2

\* C9: after a write that returned zero no further write is made for the
\* transfer, and the publish returns false.
C9_ZeroWriteAborts ==
  /\ pub.afterZero = 0
  /\ (pc = "pub_loop") => ~pub.zero
  /\ (pub.zero /\ pub.result # "none") => (pub.result = "fail" /\ pub.accepted < len)
  /\ (pub.zero /\ Published) => ~ret

C9_Witness ==
  /\ Published /\ pub.zero /\ ~ret
  /\ pub.writes = 2 /\ pub.accepted = PUBLISH_CHUNK_SZ /\ len > 2 * PUBLISH_CHUNK_SZ

\* the chunk loop has ended without a zero-byte write
LoopCompleted == pc = "pub_end" /\ pub.begun /\ ~pub.zero

\* C10 as stated: a publish of len > 0 bytes in which no write returns zero
\* makes exactly ceil(len / PUBLISH_CHUNK_SZ) writes, each of at most
\* PUBLISH_CHUNK_SZ bytes, and never counts more than len bytes.
C10_Original_ExactlyCeilWrites ==
  /\ pub.maxOffered <= PUBLISH_CHUNK_SZ
  /\ pub.accepted <= len /\ sent <= len
  /\ LoopCompleted => pub.writes = CeilDiv(len, PUBLISH_CHUNK_SZ)

\* C10 as amended: each write is offered at most PUBLISH_CHUNK_SZ bytes and
\* the byte count never exceeds len; a publish in which no write returns zero
\* makes exactly ceil(len / PUBLISH_CHUNK_SZ) writes when every write takes
\* all it is offered, and at most one more for each write that takes less.
C10_ChunkedWrites ==
  /\ pub.maxOffered <= PUBLISH_CHUNK_SZ
  /\ pub.accepted <= len /\ sent <= len /\ sent = pub.accepted
  /\ LoopCompleted =>
       /\ len > 0 /\ sent = len
       /\ pub.writes >= CeilDiv(len, PUBLISH_CHUNK_SZ)
       /\ pub.writes <= CeilDiv(len, PUBLISH_CHUNK_SZ) + pub.partials
       /\ pub.partials = 0 => pub.writes = CeilDiv(len, PUBLISH_CHUNK_SZ)

C10_Witness ==
  /\ LoopCompleted
  /\ len = 2 * PUBLISH_CHUNK_SZ + 1 /\ pub.writes = 3 /\ pub.partials = 0
  /\ pub.maxOffered = PUBLISH_CHUNK_SZ

\* connectWithDefaultWifiList has returned to its caller
ScanReturned == pc \in { "ensure_dflt", "fas_ret" }
\* the index of the last event of the log
Last == Len(events)

\* C11: a default-list scan tries the entries in list order, each at most
\* once: its first attempt is entry 0 and an attempt directly after an attempt
\* is the next entry.  It returns true on the first entry that connects, which
\* is the last one attempted, and false only after all DEFAULT_WIFI_COUNT
\* entries were tried and none connected.  Without a cached attempt the link
\* ends up on the first entry in range, with provenance DefaultList(k).
C11_DefaultScanInOrder ==
  /\ \A n \in Events :
       events[n].e = "TryDefault"
         => /\ events[n].k \in 0..(DEFAULT_WIFI_COUNT - 1)
            /\ events[n].k = IF n > 1 /\ events[n - 1].e = "TryDefault"
                             THEN events[n - 1].k + 1 ELSE 0
            /\ \A j \in 0..(events[n].k - 1) : defaultWifiList[j + 1] \notin reachable
  /\ ScanReturned
       => /\ events[Last].e = "TryDefault"
          /\ IF ret
             THEN /\ wifiLink = defaultWifiList[events[Last].k + 1]
                  /\ provenance = Prov("DefaultList", events[Last].k)
             ELSE /\ ~Connected
                  /\ events[Last].k = DEFAULT_WIFI_COUNT - 1
  /\ (pc = "ensure_dflt" /\ ~Happened("TryCached"))
       => IF ReachableDefaults = { }
          THEN ~ret
          ELSE /\ ret
               /\ wifiLink = defaultWifiList[FirstReachableDefault + 1]
               /\ provenance = Prov("DefaultList", FirstReachableDefault)

C11_Witness ==
  /\ pc = "ensure_dflt" /\ ret /\ ~Happened("TryCached")
  /\ ReachableDefaults = { 1, 2 }
  /\ provenance = Prov("DefaultList", 1)
  /\ Count("TryDefault") = 2

\* the ways a request of fetchWifiConfigFromAWS fails
RequestFailures == { "begin", "status", "parse" }
\* fetchWifiConfigFromAWS has returned to fetchFromAWSAndMaybeSwitch
HttpFetchReturned == pc = "fas_fetched" /\ ~viaIoT

\* C12: a call of fetchWifiConfigFromAWS makes at most AWS_FETCH_MAX_RETRIES
\* (5) requests.  A further request is made only after a failed one (http.begin
\* failed, status not 200, body not parsable or without ssid); the call
\* returns true at the first request that gives a credential and returns false
\* exactly when the fifth request has failed.
C12_AtMostFiveAttempts ==
  /\ pc = "fetch_attempt"
       => /\ attempt \in 1..AWS_FETCH_MAX_RETRIES
          /\ httpResult.n = attempt - 1
          /\ attempt > 1 => httpResult.kind \in RequestFailures
  /\ HttpFetchReturned
       => /\ httpResult.n \in 1..AWS_FETCH_MAX_RETRIES
          /\ ret <=> httpResult.kind = "ok"
          /\ ~ret <=> (httpResult.kind \in RequestFailures
                        /\ httpResult.n = AWS_FETCH_MAX_RETRIES)
          /\ ret => (wifiConfigFromCloud /\ Fetched \in CloudCreds)

C12_Witness ==
  /\ HttpFetchReturned /\ ret
  /\ httpResult = [kind |-> "ok", n |-> AWS_FETCH_MAX_RETRIES]

\* the device has gone to sleep without calling captureToPSRAM
SleptWithoutCapture == pc = "asleep" /\ ~Happened("Capture")

\* C13 as stated: every wake cycle makes exactly one capture-and-publish
\* attempt before the device sleeps, after the resolution has run once and the
\* broker connect has been attempted once.
C13_Original_ExactlyOneCapturePerCycle ==
  pc = "asleep"
    => /\ Count("Capture") = 1
       /\ Count("Resolve") = 1
       /\ Count("BrokerConnect") = 1

\* C13 as amended: a wake cycle makes at most one capture-and-publish
\* attempt, always before goToSleep; the capture directly follows a
\* successful connectAWS of setup, after the one run of the resolution (one
\* broker connect attempt in the HTTP build, two in the IoT build, whose
\* resolution connects for the fetch), and publishImageBinary is called only
\* on a successful capture.  The attempt is left out exactly in the cycles
\* where the camera init failed, the resolution ended without a link, or
\* connectAWS failed.
C13_AtMostOneCapturePerCycle ==
  /\ Count("Resolve") <= 1 /\ Count("Capture") <= 1 /\ Count("Publish") <= 1
  /\ \A n \in Events :
       /\ events[n].e = "Sleep" => n = Last
       /\ events[n].e = "Capture"
            => /\ n > 1 /\ events[n - 1] = Ev("BrokerConnect", 1)
               /\ Count("Resolve") = 1
               /\ Count("BrokerConnect") = IF viaIoT THEN 2 ELSE 1
       /\ events[n].e = "Publish" => (n > 1 /\ events[n - 1] = Ev("Capture", 1))
  /\ SleptWithoutCapture
       => \/ events = << Ev("Sleep", -1) >>
          \/ Happened("Resolve") /\ ~Connected /\ ~mqttConnected
          \/ Connected /\ Last > 1 /\ events[Last - 1] = Ev("BrokerConnect", 0)
  /\ (pc = "asleep" /\ Happened("Capture")) => ~Connected

C13_Witness ==
  /\ pc = "asleep" /\ pub.result = "ok"
  /\ Count("Capture") = 1 /\ Count("Publish") = 1
  /\ Count("BrokerConnect") = 2 /\ Count("Resolve") = 1

\* control is inside publishImageBinary
Publishing == pc \in { "pub", "pub_loop", "pub_end" }

\* C14: the buffer of a successful capture is freed exactly once before the
\* device sleeps, whether the publish succeeded, failed or was skipped because
\* the session was down; nothing is freed without a successful capture, and
\* publishImageBinary frees nothing: the buffer is still held when it returns.
C14_BufferFreedExactlyOnce ==
  /\ cam.frees <= 1
  /\ cam.frees = 1 => cam.copied
  /\ (Publishing \/ Published) => (cam.copied /\ img # Null /\ cam.frees = 0)
  /\ pc = "asleep" => cam.frees = (IF cam.copied THEN 1 ELSE 0)

C14_Witness ==
  /\ pc = "asleep" /\ cam.copied /\ cam.frees = 1
  /\ Happened("Capture") /\ ~Happened("Publish")

\* C15: a frame of exactly MQTT_MAX_IMAGE_BYTES (120 * 1024) passes the size
\* check: memory is asked for and, when an allocator gives some, the frame is
\* copied and handed out with its length.  A longer frame, from one byte more,
\* is refused with no allocation and no copy, the frame buffer having been
\* returned to the driver exactly once.
C15_CeilingIsInclusive ==
  cam.got
    => /\ cam.returns = 1
       /\ cam.flen > MQTT_MAX_IMAGE_BYTES
            => (~ret /\ img = Null /\ len = 0 /\ cam.allocs = 0 /\ ~cam.copied)
       /\ cam.flen <= MQTT_MAX_IMAGE_BYTES
            => /\ cam.allocs \in 1..3
               /\ ret <=> cam.copied
               /\ cam.copied => (img # Null /\ len = cam.flen)
       /\ (cam.flen = MQTT_MAX_IMAGE_BYTES /\ ~cam.copied) => cam.allocs = 3

C15_Witness ==
  /\ pc = "capture" /\ ret
  /\ cam.flen = 120 * 1024 /\ cam.copied /\ len = 120 * 1024 /\ cam.allocs = 1

NonEmpty(str) == str # Null /\ str # ""
\* the document carries a non-empty identifier under ssid or wifi_ssid
HasIdentifier(doc) ==
  doc.kind = "doc" /\ (NonEmpty(doc.ssid) \/ NonEmpty(doc.wifi_ssid))
\* the secret of the pair (ssid/password or wifi_ssid/wifi_password) the
\* identifier is taken from
MatchingSecret(doc) == IF NonEmpty(doc.ssid) THEN doc.password ELSE doc.wifi_password

\* C16: parseWifiConfigJson returns true exactly for the documents that carry
\* a non-empty ssid or wifi_ssid, and then the globals hold that identifier and,
\* when the document carries it, the secret of the same pair; a parse that
\* returns false leaves wifiSsidFromCloud, wifiPasswordFromCloud and
\* wifiConfigFromCloud as they were.
C16_ParseEitherFieldPair ==
  /\ [](pc = "parse"
          => LET doc == wifiConfigResponseBuf IN
             /\ ret <=> HasIdentifier(doc)
             /\ ret => /\ wifiConfigFromCloud
                       /\ wifiSsidFromCloud = (IF NonEmpty(doc.ssid) THEN doc.ssid
                                               ELSE doc.wifi_ssid)
                       /\ MatchingSecret(doc) # Null
                            => wifiPasswordFromCloud = MatchingSecret(doc))
  /\ [][(pc = "parse" /\ ~ret') => UNCHANGED cloudV]_vars

\* loadWifiConfigFromNVS has just returned true
Loaded == pc = "store" /\ events = << Ev("Load", 1) >>

\* C17: after any sequence of saves, a load that finds a record returns
\* exactly the identifier and secret of the last save, so a credential that
\* was saved as one, never the identifier of one save with the secret of another.
C17_LoadReturnsLastSave ==
  Loaded => /\ Cred(nvsSsid, nvsPass) = Fetched
            /\ Cred(nvsSsid, nvsPass) \in StoreCreds

\* a pass of loop() has been completed
Ticked == pc = "loop" /\ uptime > 0
\* the publish interval had elapsed when the last pass of loop() began
IntervalElapsed == (uptime - LOOP_DELAY_MS) - lastPublishMs >= PUBLISH_INTERVAL_MS

C19_AtMostOneFetch ==
  /\ Count("Resolve") <= 1
  /\ Count("Fetch") <= 1
  /\ \A m, n \in Events :
       (events[m].e = "TryCloud" /\ m < n) => events[n].e # "Fetch"
  /\ (Resolved /\ ~Connected /\ ~Happened("TryCloud")) => ~Happened("Fetch")

C19_Witness ==
  /\ Resolved /\ Connected /\ Count("Fetch") = 1
  /\ \E m, n \in Events :
       m < n /\ events[m].e = "TryCloud" /\ events[n].e = "TryDefault"

\* fetchWifiConfigFromIoT has returned to fetchFromAWSAndMaybeSwitch
IotFetchReturned == pc = "fas_fetched" /\ viaIoT

\* C20: when the broker-mediated fetch call returns, with whatever outcome,
\* the response callback is no longer installed on the broker client.
C20_CallbackRemovedOnReturn == IotFetchReturned => ~mqttCallback

\* C21: neither fetch variant writes the credential store: when the fetch
\* call returns, the store is as it was when fetchFromAWSAndMaybeSwitch was
\* entered (nothing between that entry and the fetch call touches the store).
C21_FetchLeavesStoreAlone == FetchReturned => nvs = pre.nvs

\* publishImageBinary leaves its first statements: the guard and beginPublish
PublishEntered == pc = "pub" /\ pc' # "pub"
\* the guard of publishImageBinary refuses the call
PublishRefused == img = Null \/ len = 0 \/ ~mqttConnected

\* C22: beginPublish is called only with the link up and the broker session
\* connected (and a non-empty buffer); publishImageBinary called with the
\* session down or with an empty buffer returns false without calling
\* beginPublish, opening a transfer or writing a byte.
C22_BeginOnlyWhenLinkAndSessionUp ==
  /\ [](/\ pub.begun => pub.beginCalls = 1
        /\ pub.writes > 0 => pub.begun
        /\ pub.beginCalls <= 1)
  /\ [][PublishEntered
          => /\ pub'.beginCalls = 1 => (Connected /\ mqttConnected /\ ~PublishRefused)
             /\ PublishRefused
                  => /\ pub'.beginCalls = 0 /\ ~pub'.begun /\ pub'.writes = 0
                     /\ pub'.result = "fail" /\ ~ret'
                     /\ transfer' = transfer
                     /\ pc' = "setup_free"]_vars

C22_Witness ==
  /\ Published /\ ~ret /\ ~mqttConnected /\ Connected
  /\ len > 0 /\ pub.beginCalls = 0 /\ pub.writes = 0

\* captureToPSRAM has returned false / true in this wake cycle
CaptureFailed == \E n \in Events : events[n] = Ev("Capture", 0)
CaptureSucceeded == \E n \in Events : events[n] = Ev("Capture", 1)

\* C23: a capture that obtained a frame buffer from the driver has handed it
\* back exactly once when it returns (frame too large, no memory from any of
\* the three allocators, success), and one that obtained none hands nothing
\* back; a failed capture leaves the caller a null buffer of length 0, a
\* successful one a copy whose length is the frame's length.
C23_FrameReturnedExactlyOnce ==
  /\ cam.returns = (IF cam.got THEN 1 ELSE 0)
  /\ CaptureFailed
       => /\ img = Null /\ len = 0 /\ ~cam.copied
          /\ ~cam.got \/ TooLarge(cam.flen) \/ cam.allocs = 3
  /\ CaptureSucceeded
       => /\ cam.got /\ cam.copied /\ img # Null /\ len = cam.flen
          /\ ~TooLarge(cam.flen)
  /\ ~(CaptureFailed /\ CaptureSucceeded)

C23_Witness ==
  /\ CaptureFailed /\ pc = "setup_teardown"
  /\ cam.got /\ ~TooLarge(cam.flen) /\ cam.allocs = 3 /\ cam.returns = 1
====
